---- MODULE Spec2Model ----
(***************************************************************************)
(* Contact Book CLI (src/task3.contactbook.py) as a state machine.         *)
(*                                                                         *)
(* Text is a sequence of one-character strings.  A contact is a record     *)
(* with the fields name, phone, email, address.  The store file is a       *)
(* record [exists, data] whose data is the sequence of characters on disk. *)
(* One action stands for one input() prompt together with the code that    *)
(* runs until the next prompt; save_contacts is two steps (open, which     *)
(* truncates, and dump+close) because an interrupt can fall between them.  *)
(***************************************************************************)
EXTENDS Integers, Sequences, FiniteSets, TLC

VARIABLES
    pc,            \* control location (the prompt the program waits at)
    contacts,      \* main_menu's list `contacts`
    file,          \* contacts.json on disk
    flow,          \* which of add/update/delete/search/view is running
    existing,      \* prompt_contact's parameter `existing`
    name,          \* prompt_contact's local `name`
    phone,         \* prompt_contact's local `phone`
    email,         \* prompt_contact's local `email`
    entered,       \* the last text typed (stripped) at each field's prompt
    term,          \* the search term typed in the running flow
    hits,          \* search_contacts' result in the running flow
    choice,        \* the selection typed in update/delete
    selected_idx,  \* update/delete's `selected_idx` (-1 stands for None)
    confirm,       \* delete's `confirm` (stripped and lowered)
    outcome,       \* the message the finished flow printed
    pre,           \* the list as it was when the running flow started
    durable,       \* the file as of startup or of the last completed save
    wrote,         \* save_contacts was called in the running flow
    mutated        \* some add/update/delete has completed in this session

vars == << pc, contacts, file, flow, existing, name, phone, email, entered,
           term, hits, choice, selected_idx, confirm, outcome, pre, durable,
           wrote, mutated >>

----------------------------------------------------------------------------
(* Bounds of the model. *)

\* The largest number of contacts a session holds (Add is refused beyond it).
MaxContacts == 2

----------------------------------------------------------------------------
(* Characters and str methods. *)

DigitChars == <<"0", "1", "2", "3", "4", "5", "6", "7", "8", "9">>

\* U+00B2 SUPERSCRIPT TWO: str.isdigit() is True for it, int() rejects it.
Sup2 == "U+00B2"

\* A byte that is not valid UTF-8 (0xFF), as it sits in a file on disk.
BadByte == "0xFF"

IsDecimal(c) == \E k \in 1..10 : DigitChars[k] = c

DigitValue(c) == (CHOOSE k \in 1..10 : DigitChars[k] = c) - 1

IsSpace(c) == c \in {" ", "\n", "\t", "\r"}

UpperChars == <<"A", "B", "C", "D", "E", "F", "G", "H", "I", "J", "K", "L", "M",
               "N", "O", "P", "Q", "R", "S", "T", "U", "V", "W", "X", "Y", "Z">>

LowerChars == <<"a", "b", "c", "d", "e", "f", "g", "h", "i", "j", "k", "l", "m",
               "n", "o", "p", "q", "r", "s", "t", "u", "v", "w", "x", "y", "z">>

lower_char(c) ==
    IF \E k \in 1..26 : UpperChars[k] = c
    THEN LowerChars[CHOOSE k \in 1..26 : UpperChars[k] = c]
    ELSE c

\* str.lower()
lower(s) == [i \in 1..Len(s) |-> lower_char(s[i])]

RECURSIVE lstrip(_)
lstrip(s) == IF s # <<>> /\ IsSpace(Head(s)) THEN lstrip(Tail(s)) ELSE s

RECURSIVE rstrip(_)
rstrip(s) ==
    IF s # <<>> /\ IsSpace(s[Len(s)]) THEN rstrip(SubSeq(s, 1, Len(s) - 1))
    ELSE s

\* str.strip()
strip(s) == rstrip(lstrip(s))

\* str.isdigit() on a non-empty string
isdigit(s) == s # <<>> /\ \A i \in 1..Len(s) : IsDecimal(s[i]) \/ s[i] = Sup2

\* int(s) accepts the string iff every character is a decimal digit
int_ok(s) == s # <<>> /\ \A i \in 1..Len(s) : IsDecimal(s[i])

RECURSIVE int_value(_)
int_value(s) ==
    IF s = <<>> THEN 0
    ELSE 10 * int_value(SubSeq(s, 1, Len(s) - 1)) + DigitValue(s[Len(s)])

\* `sub in s` for strings
contains(s, sub) ==
    \E k \in 0..(Len(s) - Len(sub)) : SubSeq(s, k + 1, k + Len(sub)) = sub

----------------------------------------------------------------------------
(* Validation. *)

MinDigits == 6

\* re.sub(r"\D", "", phone)
strip_non_digits(s) == SelectSeq(s, IsDecimal)

valid_phone_off_by_one(p) == Len(strip_non_digits(p)) >= MinDigits - 1

valid_phone(p) == Len(strip_non_digits(p)) >= MinDigits

\* [^@\s]
EmailChar(c) == c # "@" /\ ~IsSpace(c)

\* re.match(r"^[^@\s]+@[^@\s]+\.[^@\s]+$", email)
valid_email(e) ==
    \E a \in 2..Len(e) : \E d \in (a + 2)..(Len(e) - 1) :
        /\ e[a] = "@"
        /\ e[d] = "."
        /\ \A i \in (1..Len(e)) \ {a} : EmailChar(e[i])

----------------------------------------------------------------------------
(* json.dump(contacts, f, indent=2, ensure_ascii=False): the characters     *)
(* written.  Of the escapes the encoder knows, the alphabet of the model    *)
(* needs the quote and the backslash.                                       *)

Keys == << <<"n", "a", "m", "e">>, <<"p", "h", "o", "n", "e">>,
           <<"e", "m", "a", "i", "l">>,
           <<"a", "d", "d", "r", "e", "s", "s">> >>

FieldOf(c, k) ==
    CASE k = 1 -> c.name [] k = 2 -> c.phone [] k = 3 -> c.email
      [] k = 4 -> c.address

RECURSIVE json_escape(_)
json_escape(s) ==
    IF s = <<>> THEN <<>>
    ELSE (IF Head(s) \in {"\"", "\\"} THEN <<"\\", Head(s)>> ELSE <<Head(s)>>)
         \o json_escape(Tail(s))

json_string(s) == <<"\"">> \o json_escape(s) \o <<"\"">>

Indent(n) == [i \in 1..n |-> " "]

RECURSIVE json_members(_, _)
json_members(c, k) ==
    <<"\n">> \o Indent(4) \o json_string(Keys[k]) \o <<":", " ">>
    \o json_string(FieldOf(c, k))
    \o (IF k < 4 THEN <<",">> \o json_members(c, k + 1) ELSE <<>>)

json_object(c) ==
    <<"{">> \o json_members(c, 1) \o <<"\n">> \o Indent(2) \o <<"}">>

\* The encoder's output, cut into the pieces between which a write can stop:
\* the opening bracket, each element (with the separator before it), and the
\* closing bracket.
RECURSIVE json_elements(_, _)
json_elements(cs, i) ==
    IF i > Len(cs) THEN <<>>
    ELSE << (IF i > 1 THEN <<",">> ELSE <<>>) \o <<"\n">> \o Indent(2)
            \o json_object(cs[i]) >>
         \o json_elements(cs, i + 1)

json_chunks(cs) ==
    IF cs = <<>> THEN << <<"[", "]">> >>
    ELSE << <<"[">> >> \o json_elements(cs, 1) \o << <<"\n", "]">> >>

RECURSIVE concat(_, _)
concat(chunks, n) ==
    IF n = 0 THEN <<>> ELSE concat(chunks, n - 1) \o chunks[n]

json_dump(cs) == concat(json_chunks(cs), Len(json_chunks(cs)))

----------------------------------------------------------------------------
(* json.load(f): f.read() decodes the bytes, then the document is parsed.   *)
(* The parser covers the documents the program writes (an array of objects  *)
(* of string members, any whitespace between tokens) and rejects the rest.  *)

\* f.read() with encoding="utf-8" raises UnicodeDecodeError on such a byte
utf8_decodes(data) == \A i \in 1..Len(data) : data[i] # BadByte

Fail == [ok |-> FALSE, pos |-> 0, val |-> <<>>]

At(s, i) == IF i >= 1 /\ i <= Len(s) THEN s[i] ELSE "EOF"

RECURSIVE skip_ws(_, _)
skip_ws(s, i) == IF IsSpace(At(s, i)) THEN skip_ws(s, i + 1) ELSE i

\* the characters of a string after its opening quote, at position i
RECURSIVE scan_string(_, _, _)
scan_string(s, i, acc) ==
    LET c == At(s, i) IN
    IF c = "EOF" \/ c = "\n" THEN Fail
    ELSE IF c = "\"" THEN [ok |-> TRUE, pos |-> i + 1, val |-> acc]
    ELSE IF c = "\\"
         THEN IF At(s, i + 1) \in {"\"", "\\", "/"}
              THEN scan_string(s, i + 2, Append(acc, At(s, i + 1)))
              ELSE Fail
    ELSE scan_string(s, i + 1, Append(acc, c))

parse_string(s, i) ==
    IF At(s, i) = "\"" THEN scan_string(s, i + 1, <<>>) ELSE Fail

\* the members of an object from position i (at a key), collected in acc
RECURSIVE parse_members(_, _, _)
parse_members(s, i, acc) ==
    LET k == parse_string(s, i) IN
    IF ~k.ok THEN Fail
    ELSE LET j == skip_ws(s, k.pos) IN
         IF At(s, j) # ":" THEN Fail
         ELSE LET v == parse_string(s, skip_ws(s, j + 1)) IN
              IF ~v.ok THEN Fail
              ELSE LET e == skip_ws(s, v.pos)
                       got == Append(acc, <<k.val, v.val>>)
                   IN  IF At(s, e) = "}"
                       THEN [ok |-> TRUE, pos |-> e + 1, val |-> got]
                       ELSE IF At(s, e) = ","
                            THEN parse_members(s, skip_ws(s, e + 1), got)
                            ELSE Fail

parse_object(s, i) ==
    IF At(s, i) # "{" THEN Fail
    ELSE LET j == skip_ws(s, i + 1) IN
         IF At(s, j) = "}" THEN [ok |-> TRUE, pos |-> j + 1, val |-> <<>>]
         ELSE parse_members(s, j, <<>>)

\* dict semantics: the last member of a key wins
Lookup(pairs, key) ==
    LET idx == {i \in 1..Len(pairs) : pairs[i][1] = key}
    IN  pairs[CHOOSE i \in idx : \A j \in idx : j <= i][2]

IsContactObject(pairs) ==
    /\ \A i \in 1..Len(pairs) : \E k \in 1..4 : pairs[i][1] = Keys[k]
    /\ \A k \in 1..4 : \E i \in 1..Len(pairs) : pairs[i][1] = Keys[k]

ToContact(pairs) ==
    [name |-> Lookup(pairs, Keys[1]), phone |-> Lookup(pairs, Keys[2]),
     email |-> Lookup(pairs, Keys[3]), address |-> Lookup(pairs, Keys[4])]

RECURSIVE parse_elements(_, _, _)
parse_elements(s, i, acc) ==
    LET o == parse_object(s, i) IN
    IF ~o.ok \/ ~IsContactObject(o.val) THEN Fail
    ELSE LET e == skip_ws(s, o.pos)
             got == Append(acc, ToContact(o.val))
         IN  IF At(s, e) = "]"
             THEN [ok |-> TRUE, pos |-> e + 1, val |-> got]
             ELSE IF At(s, e) = ","
                  THEN parse_elements(s, skip_ws(s, e + 1), got)
                  ELSE Fail

parse_array(s, i) ==
    IF At(s, i) # "[" THEN Fail
    ELSE LET j == skip_ws(s, i + 1) IN
         IF At(s, j) = "]" THEN [ok |-> TRUE, pos |-> j + 1, val |-> <<>>]
         ELSE parse_elements(s, j, <<>>)

\* json.loads: one value, then only whitespace to the end of the text
json_parse(s) ==
    LET a == parse_array(s, skip_ws(s, 1)) IN
    IF a.ok /\ skip_ws(s, a.pos) = Len(s) + 1 THEN a ELSE Fail

----------------------------------------------------------------------------
(* What the user may type, and the files a session may find at startup. *)

Blank == <<>>

NameInputs == {Blank, <<" ">>, <<"J", "o">>, <<" ", "A", "n", " ">>}

PhoneInputs == {Blank, <<"A", "9", "9", "-", "1", "2", "3", "4">>,
                <<"9", "9", "1", "2", "3">>}

EmailInputs == {Blank, <<"\"", "\\", "@", "b", ".", "c">>, <<"a", "@", "b">>}

AddressInputs == {Blank, <<" ", " ">>}

TermInputs == {Blank, <<"j", "O", " ">>, <<"9", "9">>, <<"A">>, <<"z">>}

Numeral(k) == <<DigitChars[k + 1]>>

ChoiceInputs ==
    {Blank, <<"x">>, <<Sup2>>, <<"0", "1">>}
    \cup {Numeral(k) : k \in 0..(MaxContacts + 1)}

ConfirmInputs == {Blank, <<"y">>, <<"Y", " ">>, <<"n">>, <<"y", "e", "s">>}

NoContact == [name |-> <<>>, phone |-> <<>>, email |-> <<>>, address |-> <<>>]

SampleContact ==
    [name |-> <<"J", "o">>, phone |-> <<"A", "9", "9", "-", "1", "2", "3", "4">>,
     email |-> <<"\"", "\\", "@", "b", ".", "c">>, address |-> <<>>]

Absent == [exists |-> FALSE, data |-> <<>>]

OnDisk(data) == [exists |-> TRUE, data |-> data]

\* no file, an empty file, a truncated document, a file that is not UTF-8,
\* and files an earlier session saved
InitFiles ==
    {Absent, OnDisk(<<>>), OnDisk(<<"[">>), OnDisk(<<BadByte>>),
     OnDisk(json_dump(<<>>)), OnDisk(json_dump(<<SampleContact>>))}

----------------------------------------------------------------------------
(* The program's functions. *)

\* load_contacts: raised is an exception that leaves the function
load_contacts(f) ==
    IF ~f.exists THEN [raised |-> FALSE, val |-> <<>>]
    ELSE IF ~utf8_decodes(f.data) THEN [raised |-> TRUE, val |-> <<>>]
    ELSE LET r == json_parse(f.data) IN
         [raised |-> FALSE, val |-> IF r.ok THEN r.val ELSE <<>>]

\* `input(...).strip() or existing.get(field, "")`
first_entry(inp, old) == IF strip(inp) # <<>> THEN strip(inp) ELSE old

name_missing_never(n) == FALSE

\* `while not name`
name_missing(n) == n = <<>>

\* `while phone and not valid_phone(phone)`
phone_rejected(p) == p # <<>> /\ ~valid_phone(p)

\* `while email and not valid_email(email)`
email_rejected(e) == e # <<>> /\ ~valid_email(e)

name_only_match(c, t) == contains(lower(c.name), t)

\* `term in c.get("name","").lower() or term in c.get("phone","").lower()`
term_matches(c, t) == contains(lower(c.name), t) \/ contains(lower(c.phone), t)

RECURSIVE search_loop(_, _, _, _)
search_loop(cs, t, idx, results) ==
    IF idx >= Len(cs) THEN results
    ELSE search_loop(cs, t, idx + 1,
                     IF term_matches(cs[idx + 1], t) THEN Append(results, idx)
                     ELSE results)

\* search_contacts: positions are 0-based, as in the code
search_contacts(cs, t) == search_loop(cs, strip(lower(t)), 0, <<>>)

resolve_absolute_first(num, hs, n) ==
    IF 1 <= num /\ num <= n THEN num - 1
    ELSE IF 1 <= num /\ num <= Len(hs) THEN hs[num]
    ELSE -1

\* the rank-then-absolute rule of update_contact and delete_contact
resolve_selection(num, hs, n) ==
    IF 1 <= num /\ num <= Len(hs) THEN hs[num]
    ELSE IF 1 <= num /\ num <= n THEN num - 1
    ELSE -1

\* contacts.append(contact)
add_store(cs, c) == Append(cs, c)

\* contacts[selected_idx] = updated
update_store(cs, idx, c) == [cs EXCEPT ![idx + 1] = c]

pop_last(cs, idx) == SubSeq(cs, 1, Len(cs) - 1)

\* contacts.pop(selected_idx)
delete_store(cs, idx) == SubSeq(cs, 1, idx) \o SubSeq(cs, idx + 2, Len(cs))

----------------------------------------------------------------------------
(* The session. *)

promptVars == <<existing, name, phone, email, entered>>

selVars == <<term, hits, choice, selected_idx, confirm>>

NoEntry == [name |-> <<>>, phone |-> <<>>, email |-> <<>>, address |-> <<>>]

\* the locals of a flow before it has read anything
FreshLocals ==
    /\ existing = NoContact /\ name = <<>> /\ phone = <<>> /\ email = <<>>
    /\ entered = NoEntry /\ term = <<>> /\ hits = <<>> /\ choice = <<>>
    /\ selected_idx = -1 /\ confirm = <<>>

\* the locals of a flow go out of scope
ClearLocals ==
    /\ existing' = NoContact /\ name' = <<>> /\ phone' = <<>> /\ email' = <<>>
    /\ entered' = NoEntry /\ term' = <<>> /\ hits' = <<>> /\ choice' = <<>>
    /\ selected_idx' = -1 /\ confirm' = <<>>

Init ==
    /\ pc = "start"
    /\ contacts = <<>>
    /\ file \in InitFiles
    /\ durable = file
    /\ flow = "none"
    /\ outcome = "none"
    /\ pre = <<>>
    /\ wrote = FALSE
    /\ mutated = FALSE
    /\ FreshLocals

\* main_menu: contacts = load_contacts().  An exception other than
\* KeyboardInterrupt leaves main_menu and ends the process with a traceback.
Load ==
    /\ pc = "start"
    /\ LET r == load_contacts(file) IN
       /\ pc' = IF r.raised THEN "crashed" ELSE "menu"
       /\ contacts' = r.val
    /\ UNCHANGED <<file, flow, promptVars, selVars, outcome, pre, durable,
                   wrote, mutated>>

\* a menu choice that starts flow f at prompt p
Start(f, p) ==
    /\ pc = "menu"
    /\ pc' = p
    /\ flow' = f
    /\ pre' = contacts
    /\ UNCHANGED <<contacts, file, promptVars, selVars, outcome, durable,
                   wrote, mutated>>

\* a flow returns to main_menu's loop having printed message o
Finish(o) == pc' = "ret" /\ outcome' = o

\* "1": the model refuses Add once the store holds MaxContacts
ChooseAdd == Len(contacts) < MaxContacts /\ Start("add", "name")

\* "2": view_contacts only prints
ChooseView ==
    /\ pc = "menu"
    /\ flow' = "view"
    /\ pre' = contacts
    /\ Finish("viewed")
    /\ UNCHANGED <<contacts, file, promptVars, selVars, durable, wrote,
                   mutated>>

ChooseSearch == pc = "menu" /\ Start("search", "srch_term")

ChooseUpdate == pc = "menu" /\ Start("update", "upd_term")

ChooseDelete == pc = "menu" /\ Start("delete", "del_term")

\* "6"
ChooseExit ==
    /\ pc = "menu"
    /\ pc' = "exited"
    /\ contacts' = <<>>
    /\ mutated' = FALSE
    /\ UNCHANGED <<file, flow, promptVars, selVars, outcome, pre, durable,
                   wrote>>

\* anything else: "Invalid choice. Try again."
ChooseInvalid ==
    /\ pc = "menu"
    /\ UNCHANGED vars

\* main_menu's loop takes the next turn: the flow's locals are gone
Return ==
    /\ pc = "ret"
    /\ pc' = "menu"
    /\ flow' = "none"
    /\ outcome' = "none"
    /\ pre' = <<>>
    /\ wrote' = FALSE
    /\ ClearLocals
    /\ UNCHANGED <<contacts, file, durable, mutated>>

(* prompt_contact *)

\* line 43; the search locals of update_contact are not read again
PromptName ==
    /\ pc = "name"
    /\ \E inp \in NameInputs :
         LET n == first_entry(inp, existing.name) IN
         /\ name' = n
         /\ entered' = [entered EXCEPT !.name = strip(inp)]
         /\ pc' = IF name_missing(n) THEN "name_retry" ELSE "phone"
    /\ term' = <<>> /\ hits' = <<>> /\ choice' = <<>>
    /\ UNCHANGED <<contacts, file, flow, existing, phone, email, selected_idx,
                   confirm, outcome, pre, durable, wrote, mutated>>

\* line 46
PromptNameRetry ==
    /\ pc = "name_retry"
    /\ \E inp \in NameInputs :
         /\ name' = strip(inp)
         /\ entered' = [entered EXCEPT !.name = strip(inp)]
         /\ pc' = IF name_missing(strip(inp)) THEN "name_retry" ELSE "phone"
    /\ UNCHANGED <<contacts, file, flow, existing, phone, email, selVars,
                   outcome, pre, durable, wrote, mutated>>

\* line 48
PromptPhone ==
    /\ pc = "phone"
    /\ \E inp \in PhoneInputs :
         LET p == first_entry(inp, existing.phone) IN
         /\ phone' = p
         /\ entered' = [entered EXCEPT !.phone = strip(inp)]
         /\ pc' = IF phone_rejected(p) THEN "phone_retry" ELSE "email"
    /\ UNCHANGED <<contacts, file, flow, existing, name, email, selVars,
                   outcome, pre, durable, wrote, mutated>>

\* line 51
PromptPhoneRetry ==
    /\ pc = "phone_retry"
    /\ \E inp \in PhoneInputs :
         /\ phone' = strip(inp)
         /\ entered' = [entered EXCEPT !.phone = strip(inp)]
         /\ pc' = IF phone_rejected(strip(inp)) THEN "phone_retry" ELSE "email"
    /\ UNCHANGED <<contacts, file, flow, existing, name, email, selVars,
                   outcome, pre, durable, wrote, mutated>>

\* line 53
PromptEmail ==
    /\ pc = "email"
    /\ \E inp \in EmailInputs :
         LET e == first_entry(inp, existing.email) IN
         /\ email' = e
         /\ entered' = [entered EXCEPT !.email = strip(inp)]
         /\ pc' = IF email_rejected(e) THEN "email_retry" ELSE "address"
    /\ UNCHANGED <<contacts, file, flow, existing, name, phone, selVars,
                   outcome, pre, durable, wrote, mutated>>

\* line 56
PromptEmailRetry ==
    /\ pc = "email_retry"
    /\ \E inp \in EmailInputs :
         /\ email' = strip(inp)
         /\ entered' = [entered EXCEPT !.email = strip(inp)]
         /\ pc' = IF email_rejected(strip(inp)) THEN "email_retry" ELSE "address"
    /\ UNCHANGED <<contacts, file, flow, existing, name, phone, selVars,
                   outcome, pre, durable, wrote, mutated>>

\* lines 58-60, then the caller's use of the returned contact (add_contact
\* line 65, update_contact line 126) up to its call of save_contacts
PromptAddress ==
    /\ pc = "address"
    /\ \E inp \in AddressInputs :
         LET contact == [name |-> name, phone |-> phone, email |-> email,
                         address |-> first_entry(inp, existing.address)]
         IN  /\ entered' = [entered EXCEPT !.address = strip(inp)]
             /\ contacts' = IF flow = "add" THEN add_store(contacts, contact)
                            ELSE update_store(contacts, selected_idx, contact)
    /\ pc' = "save_open"
    /\ wrote' = TRUE
    /\ UNCHANGED <<file, flow, existing, name, phone, email, selVars, outcome,
                   pre, durable, mutated>>

(* save_contacts *)

\* open(DATA_FILE, "w") truncates the file
SaveOpen ==
    /\ pc = "save_open"
    /\ file' = OnDisk(<<>>)
    /\ pc' = "save_dump"
    /\ UNCHANGED <<contacts, flow, promptVars, selVars, outcome, pre, durable,
                   wrote, mutated>>

SaveDump_stale ==
    /\ pc = "save_dump"
    /\ file' = OnDisk(json_dump(pre))
    /\ durable' = file'
    /\ mutated' = TRUE
    /\ Finish(CASE flow = "add" -> "added" [] flow = "update" -> "updated"
                [] OTHER -> "deleted")
    /\ UNCHANGED <<contacts, flow, promptVars, selVars, pre, wrote>>

\* json.dump and the close of the file, then the flow's last print
SaveDump ==
    /\ pc = "save_dump"
    /\ file' = OnDisk(json_dump(contacts))
    /\ durable' = file'
    /\ mutated' = TRUE
    /\ Finish(CASE flow = "add" -> "added" [] flow = "update" -> "updated"
                [] OTHER -> "deleted")
    /\ UNCHANGED <<contacts, flow, promptVars, selVars, pre, wrote>>

(* the search term and the selection *)

\* `term = input(...).strip()`, the two early returns and search_contacts;
\* found is where the flow goes on with a non-empty result
ReadTerm(found) ==
    \E inp \in TermInputs :
        LET t == strip(inp)
            h == IF t = <<>> THEN <<>> ELSE search_contacts(contacts, t)
        IN  /\ term' = t
            /\ hits' = h
            /\ IF t = <<>> THEN Finish("term_required")
               ELSE IF h = <<>> THEN Finish("no_match")
               ELSE IF found = "ret" THEN Finish("shown")
               ELSE pc' = found /\ outcome' = outcome

\* `choice = input(...).strip()`, the early return and the resolution of
\* lines 110-122 (143-153).  isdigit() accepts characters int() rejects: the
\* ValueError leaves main_menu.
ReadChoice(found) ==
    \E inp \in ChoiceInputs :
        LET ch == strip(inp)
            sel == IF isdigit(ch) /\ int_ok(ch)
                   THEN resolve_selection(int_value(ch), hits, Len(contacts))
                   ELSE -1
        IN  /\ choice' = ch
            /\ selected_idx' = sel
            /\ existing' = IF sel >= 0 /\ flow = "update"
                           THEN contacts[sel + 1] ELSE existing
            /\ IF ch = <<>> THEN Finish("no_selection")
               ELSE IF isdigit(ch) /\ ~int_ok(ch)
                    THEN pc' = "crashed" /\ outcome' = outcome
               ELSE IF sel = -1 THEN Finish("invalid_selection")
               ELSE pc' = found /\ outcome' = outcome

\* _search_flow
SearchTerm ==
    /\ pc = "srch_term"
    /\ ReadTerm("ret")
    /\ UNCHANGED <<contacts, file, flow, promptVars, choice, selected_idx,
                   confirm, pre, durable, wrote, mutated>>

\* update_contact, lines 98-104
UpdateTerm ==
    /\ pc = "upd_term"
    /\ ReadTerm("upd_choice")
    /\ UNCHANGED <<contacts, file, flow, promptVars, choice, selected_idx,
                   confirm, pre, durable, wrote, mutated>>

\* update_contact, lines 105-124
UpdateChoice ==
    /\ pc = "upd_choice"
    /\ ReadChoice("name")
    /\ UNCHANGED <<contacts, file, flow, name, phone, email, entered, term,
                   hits, confirm, pre, durable, wrote, mutated>>

\* delete_contact, lines 132-138
DeleteTerm ==
    /\ pc = "del_term"
    /\ ReadTerm("del_choice")
    /\ UNCHANGED <<contacts, file, flow, promptVars, choice, selected_idx,
                   confirm, pre, durable, wrote, mutated>>

\* delete_contact, lines 139-153
DeleteChoice ==
    /\ pc = "del_choice"
    /\ ReadChoice("del_confirm")
    /\ UNCHANGED <<contacts, file, flow, name, phone, email, entered, term,
                   hits, confirm, pre, durable, wrote, mutated>>

confirmed_unless_no(ans) == ans # <<"n">>

\* `if confirm == "y"`
confirmed(ans) == ans = <<"y">>

\* delete_contact, lines 155-161, up to the call of save_contacts
DeleteConfirm ==
    /\ pc = "del_confirm"
    /\ \E inp \in ConfirmInputs :
         LET ans == lower(strip(inp)) IN
         /\ confirm' = ans
         /\ IF confirmed(ans)
            THEN /\ contacts' = delete_store(contacts, selected_idx)
                 /\ wrote' = TRUE
                 /\ pc' = "save_open"
                 /\ outcome' = outcome
            ELSE /\ Finish("deletion_canceled")
                 /\ UNCHANGED <<contacts, wrote>>
    /\ UNCHANGED <<file, flow, promptVars, term, hits, choice, selected_idx,
                   pre, durable, mutated>>

(* the end of the process *)

\* what an interrupted write leaves: the file was truncated by open(), and
\* the chunks written before the interrupt are flushed when the `with`
\* block closes the file.  Every proper prefix of the document is cut short;
\* the model cuts between the pieces of json_chunks.
PartialWrites(cs) ==
    {OnDisk(concat(json_chunks(cs), k)) : k \in 0..(Len(json_chunks(cs)) - 1)}

\* KeyboardInterrupt at any point: lines 203-204 print and the process ends.
\* Nothing of the process is left but the file the next startup finds.
Interrupt ==
    /\ pc \notin {"exited", "crashed"}
    /\ pc' = "exited"
    /\ file' \in (IF pc = "save_dump" THEN PartialWrites(contacts) ELSE {file})
    /\ durable' = file'
    /\ contacts' = <<>>
    /\ flow' = "none"
    /\ outcome' = "none"
    /\ pre' = <<>>
    /\ wrote' = FALSE
    /\ mutated' = FALSE
    /\ ClearLocals

Next ==
    \/ Load
    \/ ChooseAdd
    \/ ChooseView
    \/ ChooseSearch
    \/ ChooseUpdate
    \/ ChooseDelete
    \/ ChooseExit
    \/ ChooseInvalid
    \/ Return
    \/ PromptName
    \/ PromptNameRetry
    \/ PromptPhone
    \/ PromptPhoneRetry
    \/ PromptEmail
    \/ PromptEmailRetry
    \/ PromptAddress
    \/ SaveOpen
    \/ SaveDump
    \/ SearchTerm
    \/ UpdateTerm
    \/ UpdateChoice
    \/ DeleteTerm
    \/ DeleteChoice
    \/ DeleteConfirm
    \/ Interrupt

Spec == Init /\ [][Next]_vars

----------------------------------------------------------------------------
(* Properties. *)

FieldNames == {"name", "phone", "email", "address"}

IsText(v) == v \in Seq(STRING)

WellFormedContact(c) ==
    /\ DOMAIN c = FieldNames
    /\ \A f \in FieldNames : IsText(c[f])
    /\ c.name # <<>>

DigitCount(s) ==
    Cardinality({i \in 1..Len(s) :
        s[i] \in {"0", "1", "2", "3", "4", "5", "6", "7", "8", "9"}})

PhoneAcceptable(p) == p = <<>> \/ DigitCount(p) >= 6

\* the records the file holds, when it holds a document
FileRecords(f) == json_parse(f.data)

Persisted(cs) ==
    /\ file.exists
    /\ LET r == FileRecords(file) IN r.ok /\ r.val = cs

\* C1: every contact of the in-memory list, and of every document a completed
\* save_contacts wrote (the file the menu loop comes back to), has exactly
\* the fields name, phone, email, address, each a text, and a non-empty name.
C1_ContactsWellFormed ==
    /\ \A i \in 1..Len(contacts) : WellFormedContact(contacts[i])
    /\ (pc = "menu" /\ mutated) =>
          LET r == FileRecords(file) IN
          r.ok /\ \A i \in 1..Len(r.val) : WellFormedContact(r.val[i])

\* C1 witness: an update has completed on a list of two added contacts, the
\* name prompt having been left blank.
C1_Witness ==
    /\ pc = "ret" /\ outcome = "updated"
    /\ Len(contacts) >= 2 /\ entered.name = <<>>

C3_FileMirrorsStore == (pc = "menu" /\ mutated) => Persisted(contacts)

\* C3 witness: the menu is reached again with a list of two contacts, a
\* mutation having completed.
C3_Witness == pc = "menu" /\ mutated /\ Len(contacts) = 2

\* C4: for a selection that is a decimal number num, with match list hits
\* and n contacts: if 1 <= num <= len(hits) the position is hits[num-1];
\* otherwise if 1 <= num <= n it is num-1; otherwise there is none.  A
\* resolved position is an index of the list.
C4_SelectionRule ==
    (flow \in {"update", "delete"} /\ int_ok(choice)) =>
        LET num == int_value(choice)
            n   == Len(pre)
        IN  /\ (num >= 1 /\ num <= Len(hits)) => selected_idx = hits[num]
            /\ (~(num >= 1 /\ num <= Len(hits)) /\ num >= 1 /\ num <= n)
                  => selected_idx = num - 1
            /\ (~(num >= 1 /\ num <= Len(hits)) /\ ~(num >= 1 /\ num <= n))
                  => (selected_idx = -1 /\ outcome = "invalid_selection")
            /\ selected_idx \in -1..(n - 1)

\* C4 witness: the number 1 is both a rank and an absolute index, and the
\* rank was taken: the only match is the second contact.
C4_Witness ==
    /\ flow \in {"update", "delete"} /\ int_ok(choice)
    /\ int_value(choice) = 1 /\ hits = <<1>> /\ selected_idx = 1

NoOpOutcomes ==
    {"term_required", "no_match", "no_selection", "invalid_selection",
     "deletion_canceled"}

\* C5: an update or delete flow that ends with a no-op outcome leaves the
\* list and the file as they were and never calls save_contacts; each such
\* outcome is the one its input gives, a flow goes past the selection only
\* with a non-empty term, a match and a number in range, and a delete
\* writes only after the answer y.
C5_NoOpLeavesStore ==
    /\ (pc = "ret" /\ flow \in {"update", "delete"} /\ outcome \in NoOpOutcomes)
          => (contacts = pre /\ ~wrote /\ file = durable)
    /\ (flow \in {"update", "delete"} /\ pc \in {"name", "del_confirm"})
          => /\ term # <<>> /\ hits # <<>>
             /\ int_ok(choice) /\ int_value(choice) \in 1..Len(contacts)
    /\ (flow = "delete" /\ pc = "ret" /\ confirm # <<"y">>)
          => outcome \in NoOpOutcomes
    /\ (flow = "delete" /\ wrote) => confirm = <<"y">>

\* C5 witness: a delete was refused with a blank answer to the confirmation.
C5_Witness ==
    /\ pc = "ret" /\ flow = "delete" /\ outcome = "deletion_canceled"
    /\ confirm = <<>> /\ selected_idx >= 0

\* C6: a confirmed delete of position p removes exactly the record at p:
\* one record fewer, the records before p unchanged, each record after p
\* one position down, and the result persisted.
C6_DeleteRemovesOne ==
    /\ (flow = "delete" /\ wrote) =>
          /\ Len(contacts) = Len(pre) - 1
          /\ \A q \in 1..Len(pre) :
                /\ q < selected_idx + 1 => contacts[q] = pre[q]
                /\ q > selected_idx + 1 => contacts[q - 1] = pre[q]
    /\ (pc = "ret" /\ outcome = "deleted") => Persisted(contacts)

\* C6 witness: the first of two different contacts was deleted.
C6_Witness ==
    /\ pc = "ret" /\ outcome = "deleted" /\ selected_idx = 0
    /\ Len(pre) = 2 /\ pre[1] # pre[2]

\* C7: an update of position p replaces only the record at p; each field is
\* the text entered for it when that is non-blank and the existing record's
\* value when it is blank; the result is persisted.
C7_UpdateFallsBack ==
    (pc = "ret" /\ outcome = "updated") =>
        /\ Len(contacts) = Len(pre)
        /\ \A q \in 1..Len(pre) : q # selected_idx + 1 => contacts[q] = pre[q]
        /\ \A f \in FieldNames :
              contacts[selected_idx + 1][f] =
                 IF entered[f] # <<>> THEN entered[f]
                 ELSE pre[selected_idx + 1][f]
        /\ Persisted(contacts)

SameLetter(a, b) == lower_char(a) = lower_char(b)

\* t occurs in s, letters compared without regard to case
OccursIn(t, s) ==
    \E k \in 0..(Len(s) - Len(t)) :
        \A j \in 1..Len(t) : SameLetter(s[k + j], t[j])

\* C8: for a non-empty term, search_contacts returns exactly the positions
\* whose name or raw phone text contains the term, case ignored, each once
\* and in increasing order, all of them positions of the list; the list is
\* not modified by the search.
C8_SearchExact ==
    term # <<>> =>
        /\ \A i \in 1..Len(hits) : hits[i] \in 0..(Len(pre) - 1)
        /\ \A i \in 1..Len(hits) : \A j \in 1..Len(hits) :
              i < j => hits[i] < hits[j]
        /\ \A p \in 0..(Len(pre) - 1) :
              (\E i \in 1..Len(hits) : hits[i] = p)
                 <=> (OccursIn(term, pre[p + 1].name)
                        \/ OccursIn(term, pre[p + 1].phone))
        /\ pc \in {"upd_choice", "del_choice"} => contacts = pre

\* C8 witness: one term matched the first contact by its phone only and the
\* second by its name only.
C8_Witness ==
    /\ term = <<"A">> /\ hits = <<0, 1>>
    /\ pre[1].name = <<"J", "o">> /\ pre[2].phone = <<>>

\* the stores whose saved documents a session may find at startup
SavedStores == {<<>>, <<SampleContact>>}

\* what the file holds if save_contacts wrote it, nothing otherwise
LastWritten(f) ==
    IF \E st \in SavedStores : f = OnDisk(json_dump(st))
    THEN CHOOSE st \in SavedStores : f = OnDisk(json_dump(st))
    ELSE <<>>

\* C9: load_contacts surfaces no error; it returns the empty sequence when
\* the file is absent or is not a well-formed document, and otherwise the
\* sequence save_contacts last wrote.
C9_LoadIsSilent ==
    (flow = "none" /\ ~mutated /\ pc \in {"menu", "crashed"}) =>
        (pc = "menu" /\ contacts = LastWritten(file))

\* C10: whenever the process ends, by the menu's exit or by an interrupt at
\* any point, the file is the one of the last completed save, or the one
\* found at startup if no save completed.
C10_ExitKeepsLastSave == [][pc' = "exited" => file' = durable]_vars

====
